---- MODULE Spec2Model ----
(***************************************************************************)
(* A model of src/app.py, the resume ranker: the keyword feedback          *)
(* generator, the similarity ranker, the PDF pagination loops, the Google  *)
(* Sheets logger and the Streamlit script that wires them together.        *)
(*                                                                         *)
(* A text is a sequence of one-character strings.                          *)
(***************************************************************************)
EXTENDS Integers, Sequences, FiniteSets, TLC

\* ------------------------------------------------------------------ bounds

\* Longest text enumerated exhaustively for get_resume_feedback.
MaxLen == 3
\* Most distinct tokens in the long job descriptions given to get_resume_feedback.
MaxTokens == 22

\* Most resumes uploaded in one run of the script.
MaxFiles == 2
\* Most runs of the script in one session.
MaxRuns == 2
\* Most candidates in a mapping given to rank_resumes on its own.
MaxCands == 3
\* Longest text enumerated exhaustively for the pagination loops.
MaxPdfLen == 3
\* Most lines of the long texts given to the pagination loops.
MaxLines == 100

\* ------------------------------------------------------- program constants

\* list(missing)[:20]
MaxMissingShown == 20
\* resume_texts[name][:3000]
PreviewLen == 3000

\* ------------------------------------------------------------ text helpers

Alphabet == {"a", "b", "B", " "}

\* str.lower() on one character.
LowerChar(c) ==
    IF c = "A" THEN "a" ELSE IF c = "B" THEN "b" ELSE c

\* str.lower()
lower(s) == [i \in 1..Len(s) |-> LowerChar(s[i])]

\* The characters str.split() treats as separators.
IsSpace(c) == c \in {" ", "\n", "\t"}

\* Where a token starts: a non-separator at the start or after a separator.
TokenStarts(s) ==
    {i \in 1..Len(s) : ~IsSpace(s[i]) /\ (i = 1 \/ IsSpace(s[i - 1]))}

\* The last character of the token that starts at i.
TokenEnd(s, i) ==
    CHOOSE j \in i..Len(s) :
        /\ \A k \in i..j : ~IsSpace(s[k])
        /\ (j = Len(s) \/ IsSpace(s[j + 1]))

\* str.split() without arguments: the maximal runs of non-whitespace, in order.
split(s) ==
    LET starts == TokenStarts(s)
        nth(k) == CHOOSE i \in starts : Cardinality({j \in starts : j < i}) = k - 1
    IN  [k \in 1..Cardinality(starts) |-> SubSeq(s, nth(k), TokenEnd(s, nth(k)))]

\* set(seq)
ToSet(seq) == {seq[i] : i \in 1..Len(seq)}


\* sep.join(parts), each part a text.
RECURSIVE join(_, _)
join(sep, parts) ==
    IF parts = <<>> THEN <<>>
    ELSE IF Len(parts) = 1 THEN parts[1]
    ELSE parts[1] \o sep \o join(sep, Tail(parts))

\* A string literal of the program as a text: one element per literal, since
\* nothing in the program looks inside it.
Lit(str) == <<str>>

\* ------------------------------------------------- iteration order of a set

CharCode(c) ==
    CASE c = "a" -> 1 [] c = "b" -> 2 [] c = "A" -> 3 [] c = "B" -> 4 [] OTHER -> 5

RECURSIVE TokenKey(_)
TokenKey(tok) ==
    IF tok = <<>> THEN 0 ELSE CharCode(tok[1]) + 6 * TokenKey(Tail(tok))

RECURSIVE SortedTokens(_)
SortedTokens(S) ==
    IF S = {} THEN <<>>
    ELSE LET m == CHOOSE t \in S : \A u \in S : TokenKey(t) <= TokenKey(u)
         IN  <<m>> \o SortedTokens(S \ {m})

Rotate(seq, k) ==
    [i \in 1..Len(seq) |-> seq[((i - 1 + k) % Len(seq)) + 1]]

Reverse(seq) == [i \in 1..Len(seq) |-> seq[Len(seq) + 1 - i]]

\* list(a_set): the order in which Python iterates a set of strings depends on
\* the process's hash seed, so it is any of several orders. The orders kept here
\* are the rotations of the sorted order and their reversals: every element can
\* come first, and every element can come last.
SetOrders(S) ==
    IF S = {} THEN {<<>>}
    ELSE LET base == SortedTokens(S)
         IN  {Rotate(base, k) : k \in 0..(Len(base) - 1)}
               \cup {Reverse(Rotate(base, k)) : k \in 0..(Len(base) - 1)}

\* seq[:n]
Take(seq, n) == SubSeq(seq, 1, IF Len(seq) < n THEN Len(seq) ELSE n)

\* ------------------------------------------------------ get_resume_feedback

\* A variant of MatchPercent that counts an empty job description as matched.
MatchPercentFullWhenEmpty(match_count, total) ==
    IF total > 0 THEN [num |-> match_count * 100, den |-> total]
                 ELSE [num |-> 100, den |-> 1]

\* (match_count / total) * 100 if total > 0 else 0, kept as an exact fraction.
MatchPercent(match_count, total) ==
    IF total > 0 THEN [num |-> match_count * 100, den |-> total]
                 ELSE [num |-> 0, den |-> 1]

\* round(x, 1) of a fraction, in tenths, ties to even.
Round1(p) ==
    LET q == (p.num * 10) \div p.den
        r == (p.num * 10) % p.den
    IN  IF 2 * r > p.den \/ (2 * r = p.den /\ q % 2 = 1) THEN q + 1 ELSE q

\* str(round(match_percent, 1)): the float always prints with one decimal.
PercentText(p) ==
    LET t == Round1(p)
    IN  <<ToString(t \div 10), ".", ToString(t % 10)>>

\* jd_keywords = set(job_description.lower().split())
jd_keywords(job_description) == ToSet(split(lower(job_description)))

\* A variant of resume_words that forgets .lower().
resume_words_as_written(resume_text) == ToSet(split(resume_text))

\* resume_words = set(resume_text.lower().split())
resume_words(resume_text) == ToSet(split(lower(resume_text)))

\* missing = jd_keywords - resume_words
missing(resume_text, job_description) ==
    jd_keywords(job_description) \ resume_words(resume_text)

\* A variant of MissingShown without the [:20].
MissingShownUncut(order) == order

\* The missing keywords shown: list(missing)[:20].
MissingShown(order) == Take(order, MaxMissingShown)

AllPresentLine == Lit("All job description keywords are present in the resume!")

SuggestionLines ==
    << <<>>,
       Lit("Suggestions:"),
       Lit("- Add relevant keywords from the job description."),
       Lit("- Clearly highlight matching skills, tools, and achievements."),
       Lit("- Use consistent formatting and standard section headers (e.g., Experience, Projects)."),
       Lit("- Keep it concise, clean, and professional.") >>

\* get_resume_feedback(resume_text, job_description), with `order` the order in
\* which list(missing) happens to iterate the set. The record keeps the locals
\* the text is built from beside the text that is returned.
get_resume_feedback(resume_text, job_description, order) ==
    LET jd  == jd_keywords(job_description)
        res == resume_words(resume_text)
        mis == missing(resume_text, job_description)
        match_count   == Cardinality(jd \cap res)
        total         == Cardinality(jd)
        match_percent == MatchPercent(match_count, total)
        shown         == MissingShown(order)
        line1 == Lit("Resume matches about ") \o PercentText(match_percent)
                    \o Lit("% of the job description keywords.")
        line2 == IF mis # {}
                 THEN Lit("Missing keywords (skills or terms): ")
                        \o join(<<",", " ">>, shown) \o <<".">>
                 ELSE AllPresentLine
        lines == <<line1, line2>> \o SuggestionLines
    IN  [ match_percent |-> match_percent,
          shown         |-> shown,
          text          |-> join(<<"\n">>, lines) ]

\* ------------------------------------------------ inputs of the feedback run

RECURSIVE TextsOfLen(_)
TextsOfLen(n) ==
    IF n = 0 THEN {<<>>}
    ELSE {Append(t, c) : t \in TextsOfLen(n - 1), c \in Alphabet}

ShortTexts == UNION {TextsOfLen(n) : n \in 0..MaxLen}

\* The k-th long token: k written in binary, "a" for 0 and "B" for 1.
RECURSIVE LongToken(_)
LongToken(k) ==
    IF k = 0 THEN <<>>
    ELSE <<IF k % 2 = 0 THEN "a" ELSE "B">> \o LongToken(k \div 2)

\* A text of n distinct tokens, separated by single spaces.
LongText(n) == join(<<" ">>, [k \in 1..n |-> LongToken(k)])

LongTexts == {LongText(n) : n \in (MaxTokens - 3)..MaxTokens}

\* The resumes tried against the long job descriptions: none, one or two of
\* the tokens, or a long text itself.
LongResumes == {LongText(n) : n \in 0..2} \cup LongTexts

\* (resume_text, job_description) pairs given to get_resume_feedback.
FeedbackInputs ==
    (ShortTexts \X ShortTexts) \cup (LongResumes \X LongTexts)

\* ------------------------------------------------------------ generate_pdf

\* reportlab's letter page is 612 x 792 points; height is its second component.
PageHeight == 792
\* y = height - 50
TopMargin == 50
\* if y < 40
BottomMargin == 40
\* y -= 15
LineStep == 15
\* y -= 20, after the heading of a section of the combined document
HeadingStep == 20
\* c.drawString(50, ...)
LeftMargin == 50

\* str.split("\n"): the pieces between the newlines, empty pieces kept, so a
\* text with k newlines has k + 1 lines and the empty text has one empty line.
splitNL(text) ==
    LET seps == {i \in 1..Len(text) : text[i] = "\n"}
        \* the k-th newline's place; the 0-th is before the text, the last after it
        sep(k) == IF k = 0 THEN 0
                  ELSE IF k = Cardinality(seps) + 1 THEN Len(text) + 1
                  ELSE CHOOSE i \in seps : Cardinality({j \in seps : j < i}) = k - 1
    IN  [k \in 1..(Cardinality(seps) + 1) |-> SubSeq(text, sep(k - 1) + 1, sep(k) - 1)]

\* What the program does to a canvas, in order.
ShowPageOp == [op |-> "showPage", x |-> 0, y |-> 0, text |-> <<>>]
SaveOp == [op |-> "save", x |-> 0, y |-> 0, text |-> <<>>]
SetFontOp(font) == [op |-> "setFont", x |-> 0, y |-> 0, text |-> <<font>>]
DrawStringOp(x, y, text) == [op |-> "drawString", x |-> x, y |-> y, text |-> text]

\* y = height - 50 (generate_pdf), y_start = height - 50 (the combined document)
StartY == PageHeight - TopMargin

\* A variant of NeedsNewPage that breaks the page at the paper's edge.
NeedsNewPageAtEdge(y) == y < 0

\* if y < 40
NeedsNewPage(y) == y < BottomMargin

\* One iteration of `for line in lines`: the page break when the cursor is
\* below the margin, the line drawn, the cursor moved down. st is the cursor
\* and the canvas: [y, ops].
DrawLine(st, line) ==
    LET brk == NeedsNewPage(st.y)
        y1  == IF brk THEN StartY ELSE st.y
    IN  [ y   |-> y1 - LineStep,
          ops |-> (IF brk THEN Append(st.ops, ShowPageOp) ELSE st.ops)
                     \o <<DrawStringOp(LeftMargin, y1, line)>> ]

\* The heading of a section of the combined document: y = y_start, the bold
\* heading, y -= 20, the regular font.
DrawHeading(ops, name) ==
    [ y   |-> StartY - HeadingStep,
      ops |-> ops \o << SetFontOp("Helvetica-Bold"),
                        DrawStringOp(LeftMargin, StartY, Lit("Feedback for ") \o name),
                        SetFontOp("Helvetica") >> ]

\* The whole `for line in lines` loop.
RECURSIVE DrawLines(_, _)
DrawLines(st, lines) ==
    IF lines = <<>> THEN st ELSE DrawLines(DrawLine(st, lines[1]), Tail(lines))

\* generate_pdf(feedback_text): the operations on its canvas.
generate_pdf(feedback_text) ==
    Append(DrawLines([y |-> StartY, ops |-> <<>>], splitNL(feedback_text)).ops, SaveOp)

\* One pass of the combined-document part of the loop over ranked: the section
\* of one resume added to the combined canvas, closed by showPage.
CombinedSection(ops, name, feedback) ==
    Append(DrawLines(DrawHeading(ops, name), splitNL(feedback)).ops, ShowPageOp)

\* ----------------------------------------------------------- rank_resumes

\* A score is cos_sim(...).item() in units of 0.00001.
\* A stable ascending sort by score: an entry goes after the entries of
\* smaller score and after the earlier entries of equal score.
StableSortAsc(seq) ==
    LET n == Len(seq)
        pos(i) == Cardinality({j \in 1..n : seq[j].score < seq[i].score})
                    + Cardinality({j \in 1..i : seq[j].score = seq[i].score})
    IN  [p \in 1..n |-> seq[CHOOSE i \in 1..n : pos(i) = p]]

\* A variant of SortedDesc without reverse=True.
SortedAsc(seq) == StableSortAsc(seq)

\* A variant of SortedDesc that sorts ascending and reverses the result.
SortedThenReversed(seq) == Reverse(StableSortAsc(seq))

\* A variant of SortedDesc that keys the entries by score first, as a dict
\* score -> name would: of the entries of one score only the last is kept.
SortedDescOnePerScore(seq) ==
    LET kept == SelectSeq(seq, LAMBDA e : e = seq[CHOOSE i \in 1..Len(seq) :
                    /\ seq[i].score = e.score
                    /\ \A j \in 1..Len(seq) : seq[j].score = e.score => j <= i])
    IN  Reverse(StableSortAsc(Reverse(kept)))

\* sorted(rankings, key=lambda x: x[1], reverse=True): CPython reverses the
\* list, sorts it stably in ascending order and reverses the result.
SortedDesc(seq) == Reverse(StableSortAsc(Reverse(seq)))

\* rank_resumes(job_description, resume_texts) once the provider has answered:
\* scores[i] is the similarity it gave the i-th item of resume_texts.
rank_resumes(resume_texts, scores) ==
    SortedDesc([i \in 1..Len(resume_texts) |->
                   [name |-> resume_texts[i].name, score |-> scores[i]]])

\* --------------------------------------------------- save_results_to_gsheet

\* round(x, 4) of a score in units of 0.00001, in units of 0.0001, ties to even.
Round4(score) ==
    LET q == score \div 10
        r == score % 10
    IN  IF r > 5 \/ (r = 5 /\ q % 2 = 1) THEN q + 1 ELSE q

\* The row appended for one ranking entry; now is the clock's reading, which
\* the program formats as "%Y-%m-%d %H:%M:%S".
SheetRow(entry, now) ==
    [name |-> entry.name, score |-> Round4(entry.score), ts |-> now]

\* A variant of append_row that keeps one row per resume name.
append_row_upsert(rows, row) ==
    IF \E i \in 1..Len(rows) : rows[i].name = row.name
    THEN [i \in 1..Len(rows) |-> IF rows[i].name = row.name THEN row ELSE rows[i]]
    ELSE Append(rows, row)

\* sheet.append_row(row): the row goes after the rows already there.
append_row(rows, row) == Append(rows, row)

\* The first k passes of `for row in data: sheet.append_row(...)`.
RECURSIVE AppendRows(_, _, _, _)
AppendRows(rows, data, k, now) ==
    IF k = 0 THEN rows
    ELSE append_row(AppendRows(rows, data, k - 1, now), SheetRow(data[k], now))

\* ------------------------------------------------------------- plot_scores

\* df.sort_values(by="Similarity Score", ascending=True): the bars, lowest first.
plot_scores(df) == StableSortAsc(df)

\* -------------------------------------------------------- text extraction

\* A file name is a text of two pieces, the stem and the extension.
endswith(name, suffix) == name # <<>> /\ name[Len(name)] = suffix

\* ---------------------------------------------------------------- variables

VARIABLES
    \* the Streamlit script and what it talks to
    pc,                    \* where the script is; "idle" between runs
    clock,                 \* the wall clock, which the logged rows are stamped with
    jd_input,              \* the job description widgets: the file uploaded, the text pasted
    resume_files,          \* the resumes uploaded, in upload order
    job_description_text,
    resume_texts,          \* the dict name -> text, in insertion order
    ranked,
    sheet,                 \* the rows of the Google sheet
    shown,                 \* what the page displays
    combined_canvas,       \* the operations on the combined document's canvas
    fb_index,              \* how many entries of ranked the feedback loop has done
    error,                 \* the exception that ended the run, if one did
    \* get_resume_feedback called on its own
    fb_pc,                 \* "call" before it runs, "done" after
    fb_resume,             \* its argument resume_text
    fb_jd,                 \* its argument job_description
    fb_out,                \* what it computed
    \* a pagination loop run on its own
    pdf_pc,                \* "begin", "loop", "end", "done"
    pdf_mode,              \* "single": generate_pdf; "combined": a section of the combined document
    pdf_text,              \* the feedback text
    pdf_lines,             \* feedback_text.split("\n")
    pdf_i,                 \* how many lines the loop has done
    pdf_st                 \* the cursor and the canvas: [y, ops]

appVars == <<pc, clock, jd_input, resume_files, job_description_text, resume_texts,
             ranked, sheet, shown, combined_canvas, fb_index, error>>

fbVars == <<fb_pc, fb_resume, fb_jd, fb_out>>

pdfVars == <<pdf_pc, pdf_mode, pdf_text, pdf_lines, pdf_i, pdf_st>>

vars == <<appVars, fbVars, pdfVars>>

\* ------------------------------------------------------------ idle values

NoFile == [name |-> <<>>, content |-> <<>>, readable |-> TRUE]

NoError == [kind |-> "none", doc |-> <<>>]

NothingShown ==
    [ prompt |-> FALSE, table_shown |-> FALSE, table |-> <<>>,
      chart_shown |-> FALSE, chart |-> <<>>, sections |-> <<>>,
      combined_download |-> FALSE ]

NoFeedback == [match_percent |-> [num |-> 0, den |-> 1], shown |-> <<>>, text |-> <<>>]

AppIdle ==
    /\ pc = "idle"
    /\ clock = 0
    /\ jd_input = [file |-> NoFile, pasted |-> <<>>]
    /\ resume_files = <<>>
    /\ job_description_text = <<>>
    /\ resume_texts = <<>>
    /\ ranked = <<>>
    /\ sheet = <<>>
    /\ shown = NothingShown
    /\ combined_canvas = <<>>
    /\ fb_index = 0
    /\ error = NoError

FbIdle ==
    /\ fb_pc = "idle"
    /\ fb_resume = <<>>
    /\ fb_jd = <<>>
    /\ fb_out = NoFeedback

PdfIdle ==
    /\ pdf_pc = "idle"
    /\ pdf_mode = "single"
    /\ pdf_text = <<>>
    /\ pdf_lines = <<>>
    /\ pdf_i = 0
    /\ pdf_st = [y |-> 0, ops |-> <<>>]

\* ----------------------------------------------------- the script's inputs

\* A file as the script sees it: its name, the text its extractor yields, and
\* whether the extractor can read it at all (it raises when it cannot).
ResumeUploads ==
    { [name |-> <<"r1", ".pdf">>, content |-> <<"a", " ", "B">>, readable |-> TRUE],
      [name |-> <<"r1", ".pdf">>, content |-> <<>>, readable |-> FALSE],
      [name |-> <<"r2", ".docx">>, content |-> <<"b">>, readable |-> TRUE],
      [name |-> <<"r2", ".docx">>, content |-> <<>>, readable |-> FALSE] }

RECURSIVE UploadsOfLen(_)
UploadsOfLen(n) ==
    IF n = 0 THEN {<<>>}
    ELSE {Append(fs, f) : fs \in UploadsOfLen(n - 1), f \in ResumeUploads}

ResumeFileLists == UNION {UploadsOfLen(n) : n \in 0..MaxFiles}

JdInputs ==
    { [file |-> NoFile, pasted |-> <<>>],
      [file |-> NoFile, pasted |-> <<"a", " ", "b">>],
      [file |-> [name |-> <<"jd", ".txt">>, content |-> <<"A">>, readable |-> TRUE],
       pasted |-> <<>>],
      [file |-> [name |-> <<"jd", ".txt">>, content |-> <<>>, readable |-> FALSE],
       pasted |-> <<>>] }

\* The similarities the provider gives in a run of the script, in units of
\* 0.00001: two resumes may tie.
AppScores == {5, 15}

\* ------------------------------------------------------------ dict helpers

\* resume_texts[name] = text: a new key goes last, an old key keeps its place.
DictSet(d, name, text) ==
    IF \E i \in 1..Len(d) : d[i].name = name
    THEN [i \in 1..Len(d) |-> IF d[i].name = name
                              THEN [name |-> name, text |-> text] ELSE d[i]]
    ELSE Append(d, [name |-> name, text |-> text])

\* resume_texts[name]
DictGet(d, name) == d[CHOOSE i \in 1..Len(d) : d[i].name = name].text

\* The dict after the first k passes of the upload loop.
RECURSIVE UploadLoop(_, _)
UploadLoop(files, k) ==
    IF k = 0 THEN <<>>
    ELSE DictSet(UploadLoop(files, k - 1), files[k].name,
                 IF endswith(files[k].name, ".pdf") \/ endswith(files[k].name, ".docx")
                 THEN files[k].content ELSE <<>>)

\* The extractor is called for a .pdf, .docx file (and for a .txt job
\* description) and raises when it cannot read the file.
Raises(file) ==
    /\ endswith(file.name, ".pdf") \/ endswith(file.name, ".docx")
          \/ endswith(file.name, ".txt")
    /\ ~file.readable

\* ------------------------------------------------- the script, step by step

Init == AppIdle /\ FbIdle /\ PdfIdle

\* The user changes a widget: Streamlit runs the script from the top.
StartRun ==
    /\ pc \in {"idle", "done", "crashed"}
    /\ clock < MaxRuns
    /\ clock' = clock + 1
    /\ \E jd \in JdInputs, files \in ResumeFileLists :
          /\ jd_input' = jd
          /\ resume_files' = files
    /\ job_description_text' = <<>>
    /\ resume_texts' = <<>>
    /\ ranked' = <<>>
    /\ shown' = NothingShown
    /\ combined_canvas' = <<>>
    /\ fb_index' = 0
    /\ error' = NoError
    /\ pc' = "jd"
    /\ UNCHANGED <<sheet, fbVars, pdfVars>>

\* Lines 130-141: the job description from the uploaded file, else the pasted text.
ReadJobDescription ==
    /\ pc = "jd"
    /\ IF jd_input.file # NoFile
       THEN IF Raises(jd_input.file)
            THEN /\ pc' = "crashed"
                 /\ error' = [kind |-> "jd_extract", doc |-> jd_input.file.name]
                 /\ UNCHANGED job_description_text
            ELSE /\ pc' = "resumes"
                 /\ job_description_text' =
                        (IF endswith(jd_input.file.name, ".txt")
                            \/ endswith(jd_input.file.name, ".pdf")
                            \/ endswith(jd_input.file.name, ".docx")
                         THEN jd_input.file.content ELSE <<>>)
                 /\ UNCHANGED error
       ELSE /\ pc' = "resumes"
            /\ job_description_text' = jd_input.pasted
            /\ UNCHANGED error
    /\ UNCHANGED <<clock, jd_input, resume_files, resume_texts, ranked, sheet, shown,
                   combined_canvas, fb_index, fbVars, pdfVars>>

\* Lines 144-155: the upload loop. An extractor that raises ends the run there.
ReadResumes ==
    /\ pc = "resumes"
    /\ LET bad == {k \in 1..Len(resume_files) : Raises(resume_files[k])}
           first == CHOOSE k \in bad : \A j \in bad : k <= j
       IN  IF bad # {}
           THEN /\ pc' = "crashed"
                /\ error' = [kind |-> "extract", doc |-> resume_files[first].name]
                /\ resume_texts' = UploadLoop(resume_files, first - 1)
           ELSE /\ pc' = "rank"
                /\ resume_texts' = UploadLoop(resume_files, Len(resume_files))
                /\ UNCHANGED error
    /\ UNCHANGED <<clock, jd_input, resume_files, job_description_text, ranked, sheet,
                   shown, combined_canvas, fb_index, fbVars, pdfVars>>

\* Lines 224-225: nothing to rank.
ShowPrompt ==
    /\ pc = "rank"
    /\ ~(job_description_text # <<>> /\ resume_texts # <<>>)
    /\ shown' = [shown EXCEPT !.prompt = TRUE]
    /\ pc' = "done"
    /\ UNCHANGED <<clock, jd_input, resume_files, job_description_text, resume_texts,
                   ranked, sheet, combined_canvas, fb_index, error, fbVars, pdfVars>>

\* Lines 158-159: rank_resumes. The provider answers each text with a score or
\* raises; the first raise ends the run.
RankResumes ==
    /\ pc = "rank"
    /\ job_description_text # <<>> /\ resume_texts # <<>>
    /\ \/ \E scores \in [1..Len(resume_texts) -> AppScores] :
             /\ ranked' = rank_resumes(resume_texts, scores)
             /\ pc' = "save"
             /\ UNCHANGED error
       \/ /\ pc' = "crashed"
          /\ error' = [kind |-> "embed_jd", doc |-> <<>>]
          /\ UNCHANGED ranked
       \/ \E k \in 1..Len(resume_texts) :
             /\ pc' = "crashed"
             /\ error' = [kind |-> "embed", doc |-> resume_texts[k].name]
             /\ UNCHANGED ranked
    /\ UNCHANGED <<clock, jd_input, resume_files, job_description_text, resume_texts,
                   sheet, shown, combined_canvas, fb_index, fbVars, pdfVars>>

\* Line 161: save_results_to_gsheet(ranked). connect_to_gsheet or an append_row
\* may raise: the rows appended before that stay in the sheet.
save_results_to_gsheet ==
    /\ pc = "save"
    /\ \/ /\ sheet' = AppendRows(sheet, ranked, Len(ranked), clock)
          /\ pc' = "show"
          /\ UNCHANGED error
       \/ \E k \in 0..(Len(ranked) - 1) :
             /\ sheet' = AppendRows(sheet, ranked, k, clock)
             /\ pc' = "crashed"
             /\ error' = [kind |-> "log", doc |-> <<>>]
    /\ UNCHANGED <<clock, jd_input, resume_files, job_description_text, resume_texts,
                   ranked, shown, combined_canvas, fb_index, fbVars, pdfVars>>

\* Lines 162-171: the ranking table and the chart.
ShowRanking ==
    /\ pc = "show"
    /\ shown' = [shown EXCEPT !.table_shown = TRUE, !.table = ranked,
                              !.chart_shown = TRUE, !.chart = plot_scores(ranked)]
    /\ combined_canvas' = <<>>
    /\ fb_index' = 0
    /\ pc' = "feedback"
    /\ UNCHANGED <<clock, jd_input, resume_files, job_description_text, resume_texts,
                   ranked, sheet, error, fbVars, pdfVars>>

\* Lines 173-211: one pass of `for name, score in ranked`.
ShowFeedback ==
    /\ pc = "feedback"
    /\ fb_index < Len(ranked)
    /\ LET name == ranked[fb_index + 1].name
           text == DictGet(resume_texts, name)
       IN  \E order \in SetOrders(missing(text, job_description_text)) :
             LET feedback == get_resume_feedback(text, job_description_text, order).text
             IN  /\ shown' = [shown EXCEPT !.sections =
                        Append(@, [ name     |-> name,
                                    preview  |-> Take(text, PreviewLen),
                                    feedback |-> feedback,
                                    pdf      |-> generate_pdf(feedback) ])]
                 /\ combined_canvas' = CombinedSection(combined_canvas, name, feedback)
    /\ fb_index' = fb_index + 1
    /\ UNCHANGED <<pc, clock, jd_input, resume_files, job_description_text,
                   resume_texts, ranked, sheet, error, fbVars, pdfVars>>

\* Lines 213-222: the combined document saved and offered for download.
FinishRun ==
    /\ pc = "feedback"
    /\ fb_index = Len(ranked)
    /\ combined_canvas' = Append(combined_canvas, SaveOp)
    /\ shown' = [shown EXCEPT !.combined_download = TRUE]
    /\ pc' = "done"
    /\ UNCHANGED <<clock, jd_input, resume_files, job_description_text, resume_texts,
                   ranked, sheet, fb_index, error, fbVars, pdfVars>>

Next ==
    \/ StartRun
    \/ ReadJobDescription
    \/ ReadResumes
    \/ ShowPrompt
    \/ RankResumes
    \/ save_results_to_gsheet
    \/ ShowRanking
    \/ ShowFeedback
    \/ FinishRun

Spec == Init /\ [][Next]_vars

\* -------------------------------------------- get_resume_feedback, on its own

InitFeedback ==
    /\ AppIdle /\ PdfIdle
    /\ fb_pc = "call"
    /\ \E in \in FeedbackInputs : fb_resume = in[1] /\ fb_jd = in[2]
    /\ fb_out = NoFeedback

CallFeedback ==
    /\ fb_pc = "call"
    /\ \E order \in SetOrders(missing(fb_resume, fb_jd)) :
          fb_out' = get_resume_feedback(fb_resume, fb_jd, order)
    /\ fb_pc' = "done"
    /\ UNCHANGED <<fb_resume, fb_jd, appVars, pdfVars>>

NextFeedback == CallFeedback

SpecFeedback == InitFeedback /\ [][NextFeedback]_vars

\* --------------------------------------------------- rank_resumes, on its own

RankName(k) == <<ToString(k), ".pdf">>

\* The similarities the provider may give, in units of 0.00001.
RankScores == {-3, 5, 15}

\* The mappings name -> text of at most MaxCands candidates, in every insertion
\* order, the empty mapping among them.
RankMappings ==
    LET names == {RankName(k) : k \in 1..MaxCands}
        lists == UNION {[1..n -> names] : n \in 0..MaxCands}
    IN  { [i \in 1..Len(l) |-> [name |-> l[i], text |-> <<"a">>]] :
            l \in {m \in lists : \A i, j \in 1..Len(m) : i # j => m[i] # m[j]} }

InitRank ==
    /\ FbIdle /\ PdfIdle
    /\ pc = "rank_call"
    /\ clock = 0
    /\ jd_input = [file |-> NoFile, pasted |-> <<>>]
    /\ resume_files = <<>>
    /\ job_description_text = <<"a", " ", "b">>
    /\ resume_texts \in RankMappings
    /\ ranked = <<>>
    /\ sheet = <<>>
    /\ shown = NothingShown
    /\ combined_canvas = <<>>
    /\ fb_index = 0
    /\ error = NoError

CallRank ==
    /\ pc = "rank_call"
    /\ \E scores \in [1..Len(resume_texts) -> RankScores] :
          ranked' = rank_resumes(resume_texts, scores)
    /\ pc' = "rank_done"
    /\ UNCHANGED <<clock, jd_input, resume_files, job_description_text, resume_texts,
                   sheet, shown, combined_canvas, fb_index, error, fbVars, pdfVars>>

NextRank == CallRank

SpecRank == InitRank /\ [][NextRank]_vars

\* ------------------------------------------- a pagination loop, on its own

PdfAlphabet == {"x", "\n"}

RECURSIVE PdfTextsOfLen(_)
PdfTextsOfLen(n) ==
    IF n = 0 THEN {<<>>}
    ELSE {Append(t, c) : t \in PdfTextsOfLen(n - 1), c \in PdfAlphabet}

\* A text of n one-character lines "x", "y", "z", "x", ...
LongPdfText(n) ==
    [i \in 1..(2 * n - 1) |->
        IF i % 2 = 0 THEN "\n"
        ELSE CASE ((i + 1) \div 2) % 3 = 1 -> "x"
               [] ((i + 1) \div 2) % 3 = 2 -> "y"
               [] OTHER -> "z"]

PdfTexts ==
    UNION {PdfTextsOfLen(n) : n \in 0..MaxPdfLen}
      \cup {LongPdfText(n) : n \in 1..MaxLines}

\* The resume whose section the combined loop writes.
PdfSectionName == <<"r1", ".pdf">>

InitPdf ==
    /\ AppIdle /\ FbIdle
    /\ pdf_pc = "begin"
    /\ pdf_mode \in {"single", "combined"}
    /\ pdf_text \in PdfTexts
    /\ pdf_lines = <<>>
    /\ pdf_i = 0
    /\ pdf_st = [y |-> 0, ops |-> <<>>]

\* Lines 91-95 of generate_pdf; lines 199-204 of the combined loop.
PdfBegin ==
    /\ pdf_pc = "begin"
    /\ pdf_lines' = splitNL(pdf_text)
    /\ pdf_st' = IF pdf_mode = "single"
                 THEN [y |-> StartY, ops |-> <<>>]
                 ELSE DrawHeading(<<>>, PdfSectionName)
    /\ pdf_i' = 0
    /\ pdf_pc' = "loop"
    /\ UNCHANGED <<pdf_mode, pdf_text, appVars, fbVars>>

\* Lines 96-101 of generate_pdf; lines 205-210 of the combined loop.
PdfDrawLine ==
    /\ pdf_pc = "loop"
    /\ pdf_i < Len(pdf_lines)
    /\ pdf_st' = DrawLine(pdf_st, pdf_lines[pdf_i + 1])
    /\ pdf_i' = pdf_i + 1
    /\ UNCHANGED <<pdf_pc, pdf_mode, pdf_text, pdf_lines, appVars, fbVars>>

\* Line 102 of generate_pdf (c.save()); line 211 of the combined loop (showPage()).
PdfEnd ==
    /\ pdf_pc = "loop"
    /\ pdf_i = Len(pdf_lines)
    /\ pdf_st' = [pdf_st EXCEPT !.ops =
                     Append(@, IF pdf_mode = "single" THEN SaveOp ELSE ShowPageOp)]
    /\ pdf_pc' = "done"
    /\ UNCHANGED <<pdf_mode, pdf_text, pdf_lines, pdf_i, appVars, fbVars>>

NextPdf == PdfBegin \/ PdfDrawLine \/ PdfEnd

SpecPdf == InitPdf /\ [][NextPdf]_vars

\* ================================================================== claims

\* The lowercase whitespace-separated tokens of a text, said directly: the
\* maximal runs of non-whitespace characters of the lowercased text.
LowerTokens(text) ==
    LET s == lower(text)
        sp(i) == s[i] \in {" ", "\n", "\t"}
    IN  { SubSeq(s, i, j) : <<i, j>> \in
            { ij \in (1..Len(s)) \X (1..Len(s)) :
                /\ ij[1] <= ij[2]
                /\ \A k \in ij[1]..ij[2] : ~sp(k)
                /\ (ij[1] = 1 \/ sp(ij[1] - 1))
                /\ (ij[2] = Len(s) \/ sp(ij[2] + 1)) } }

\* The place of a name in the mapping's insertion order.
InsertionIndex(name) == CHOOSE i \in 1..Len(resume_texts) : resume_texts[i].name = name

\* ---- C1
\* C1: the list rank_resumes returns is a permutation of the candidates of
\* the mapping: as long as the mapping, each input name in exactly one entry,
\* no other name; for the empty mapping the list is empty.
C1_RankIsPermutation ==
    pc = "rank_done" =>
        /\ Len(ranked) = Len(resume_texts)
        /\ \A i \in 1..Len(resume_texts) :
              Cardinality({j \in 1..Len(ranked) : ranked[j].name = resume_texts[i].name}) = 1
        /\ \A j \in 1..Len(ranked) :
              \E i \in 1..Len(resume_texts) : ranked[j].name = resume_texts[i].name

\* Three candidates ranked, two of them tied, in another order than inserted.
C1_Witness ==
    /\ pc = "rank_done"
    /\ Len(resume_texts) = 3
    /\ ranked[1].name # resume_texts[1].name
    /\ ranked[1].score = ranked[2].score

\* ---- C2
\* C2: the list rank_resumes returns is sorted descending by score: for all
\* positions i < j, score[i] >= score[j].
C2_RankSortedDescending ==
    pc = "rank_done" =>
        \A i, j \in 1..Len(ranked) : i < j => ranked[i].score >= ranked[j].score

\* Three candidates inserted in ascending order of score come out reversed.
C2_Witness ==
    /\ pc = "rank_done"
    /\ Len(ranked) = 3
    /\ ranked[1].score > ranked[2].score /\ ranked[2].score > ranked[3].score
    /\ ranked[1].name = resume_texts[3].name
    /\ ranked[3].name = resume_texts[1].name

\* ---- C9
\* C9: ties are broken stably: of two candidates of equal score, the one
\* inserted earlier in the mapping comes earlier in the returned list.
C9_RankTiesStable ==
    pc = "rank_done" =>
        \A i, j \in 1..Len(ranked) :
            (i < j /\ ranked[i].score = ranked[j].score)
                => InsertionIndex(ranked[i].name) < InsertionIndex(ranked[j].name)

\* Two tied candidates below a third one that was inserted last.
C9_Witness ==
    /\ pc = "rank_done"
    /\ Len(ranked) = 3
    /\ ranked[1].score > ranked[2].score
    /\ ranked[2].score = ranked[3].score
    /\ ranked[1].name = resume_texts[3].name

\* ---- C3
\* C3: the match percentage of get_resume_feedback lies in [0, 100], its
\* denominator is never zero, and it is 0 when the job description has no
\* token (empty or whitespace only), whatever the resume text.
C3_MatchPercentRange ==
    fb_pc = "done" =>
        /\ fb_out.match_percent.den > 0
        /\ 0 <= fb_out.match_percent.num
        /\ fb_out.match_percent.num <= 100 * fb_out.match_percent.den
        /\ (\A i \in 1..Len(fb_jd) : fb_jd[i] \in {" ", "\n", "\t"})
              => fb_out.match_percent.num = 0

\* A whitespace-only job description against a resume with a token.
C3_Witness ==
    /\ fb_pc = "done"
    /\ fb_jd = <<" ", " ">>
    /\ fb_resume = <<"a">>
    /\ fb_out.match_percent.num = 0

\* ---- C4
\* C4: the missing-keyword list shown has at most 20 entries, each a lowercase
\* job-description token that is not a lowercase token of the resume, and
\* exactly 20 entries when more than 20 tokens are missing.
C4_MissingListCapped ==
    fb_pc = "done" =>
        LET gone == LowerTokens(fb_jd) \ LowerTokens(fb_resume)
        IN  /\ Len(fb_out.shown) <= 20
            /\ \A k \in 1..Len(fb_out.shown) : fb_out.shown[k] \in gone
            /\ Cardinality(gone) > 20 => Len(fb_out.shown) = 20

\* More than 20 tokens missing, 20 shown.
C4_Witness ==
    /\ fb_pc = "done"
    /\ Cardinality(LowerTokens(fb_jd) \ LowerTokens(fb_resume)) > 20
    /\ Len(fb_out.shown) = 20

\* ---- C5
\* C5: when the job description has a token and each of its lowercase tokens is
\* a lowercase token of the resume, the match percentage is 100, no missing
\* keyword is shown and the second line of the feedback is the all-present
\* message.
C5_FullMatch ==
    (/\ fb_pc = "done"
     /\ LowerTokens(fb_jd) # {}
     /\ LowerTokens(fb_jd) \subseteq LowerTokens(fb_resume))
        => /\ fb_out.match_percent.num = 100 * fb_out.match_percent.den
           /\ fb_out.shown = <<>>
           /\ splitNL(fb_out.text)[2]
                 = <<"All job description keywords are present in the resume!">>

\* The same text, with an upper-case token, as resume and as job description.
C5_Witness ==
    /\ fb_pc = "done"
    /\ fb_jd = <<"a", " ", "B">>
    /\ fb_resume = fb_jd
    /\ fb_out.match_percent = [num |-> 200, den |-> 2]

\* ---- C6
\* C6: a failure on one document of the batch (its extractor raising in the
\* upload loop, or the provider raising for it in rank_resumes) is isolated to
\* it: with a job description given, every other document uploaded, itself
\* readable, still has its row in the ranking table and its feedback section
\* on the page.
C6_FailureIsolated ==
    (/\ pc = "crashed"
     /\ error.kind \in {"extract", "embed"}
     /\ job_description_text # <<>>) =>
        \A k \in 1..Len(resume_files) :
            (resume_files[k].name # error.doc /\ resume_files[k].readable) =>
                /\ shown.table_shown
                /\ \E i \in 1..Len(shown.table) : shown.table[i].name = resume_files[k].name
                /\ \E i \in 1..Len(shown.sections) :
                      shown.sections[i].name = resume_files[k].name

\* ---- C7
\* C7: a failure of the logging sink does not block the page: when ranking
\* succeeded and save_results_to_gsheet raised, the table, the chart, the
\* feedback of every ranked resume and the combined PDF are still produced.
C7_LoggingBestEffort ==
    (pc \in {"done", "crashed"} /\ ranked # <<>> /\ error.kind = "log") =>
        /\ shown.table_shown
        /\ shown.chart_shown
        /\ Len(shown.sections) = Len(ranked)
        /\ shown.combined_download

\* ---- C8
\* One step of the script, seen from the sheet: the rows already there stay as
\* they are, and a save that completes adds one row per ranking entry, in
\* ranking order, with the entry's name and its score rounded to 4 decimals.
C8_SheetStep ==
    /\ Len(sheet') >= Len(sheet)
    /\ SubSeq(sheet', 1, Len(sheet)) = sheet
    /\ (pc = "save" /\ pc' = "show") =>
          /\ Len(sheet') = Len(sheet) + Len(ranked)
          /\ \A i \in 1..Len(ranked) :
                /\ sheet'[Len(sheet) + i].name = ranked[i].name
                /\ 10 * sheet'[Len(sheet) + i].score - ranked[i].score \in -5..5
    /\ pc # "save" => sheet' = sheet

\* C8: the log is append-only across runs: a completed
\* save_results_to_gsheet(ranked) appends exactly len(ranked) rows, one per
\* entry in ranking order, after the rows already present; no row is modified,
\* removed or deduplicated, and nothing else writes the sheet.
C8_LogAppendOnly == [][C8_SheetStep]_vars

\* The same two-resume batch logged by two runs: four rows, the last two
\* repeating the names of the first two.
C8_Witness ==
    /\ pc = "done"
    /\ clock = 2
    /\ Len(ranked) = 2
    /\ Len(sheet) = 4
    /\ sheet[1].name = sheet[3].name /\ sheet[2].name = sheet[4].name
    /\ sheet[1].score = sheet[3].score /\ sheet[2].score = sheet[4].score
    /\ sheet[1].ts = 1 /\ sheet[3].ts = 2

\* ---- C10
\* The drawString operations of the canvas, the section heading aside.
LinesDrawn ==
    LET draws == SelectSeq(pdf_st.ops, LAMBDA o : o.op = "drawString")
    IN  IF pdf_mode = "combined" /\ pdf_pc # "begin" THEN Tail(draws) ELSE draws

\* Every string is drawn between the bottom margin and the top of the page,
\* and the lines drawn so far are the first lines of the text, in order.
C10_Drawn ==
    /\ \A k \in 1..Len(pdf_st.ops) :
          pdf_st.ops[k].op = "drawString"
              => 40 <= pdf_st.ops[k].y /\ pdf_st.ops[k].y <= PageHeight - 50
    /\ Len(LinesDrawn) = pdf_i
    /\ \A k \in 1..pdf_i : LinesDrawn[k].text = pdf_lines[k]
    /\ pdf_pc = "done" => pdf_i = Len(pdf_lines)

\* One pass of the line loop: a page is started exactly when the cursor is
\* below 40, the line is then drawn at page height - 50, else at the cursor,
\* and the cursor ends 15 below the line.
C10_LineStep ==
    pdf_i' = pdf_i + 1 =>
        LET before == pdf_st.ops
            after  == pdf_st'.ops
            broke  == Len(after) = Len(before) + 2 /\ after[Len(before) + 1].op = "showPage"
            drawn  == after[Len(after)]
        IN  /\ broke <=> pdf_st.y < 40
            /\ ~broke => Len(after) = Len(before) + 1
            /\ drawn.op = "drawString"
            /\ drawn.y = IF pdf_st.y < 40 THEN PageHeight - 50 ELSE pdf_st.y
            /\ pdf_st'.y = drawn.y - 15

\* C10: in generate_pdf and in the combined-PDF loop the lines are drawn in
\* input order, each once, every one at a y with 40 <= y <= page height - 50;
\* before a line is drawn a page is started exactly when the cursor, which
\* goes down 15 per line, is below 40, and the cursor is then reset to page
\* height - 50.
C10_Pagination == []C10_Drawn /\ [][C10_LineStep]_vars

\* A section of the combined document long enough to break the page: a
\* showPage followed by a line, and all the lines drawn.
C10_Witness ==
    /\ pdf_pc = "done"
    /\ pdf_mode = "combined"
    /\ \E k \in 1..(Len(pdf_st.ops) - 1) :
          /\ pdf_st.ops[k].op = "showPage"
          /\ pdf_st.ops[k + 1].op = "drawString"
          /\ pdf_st.ops[k + 1].y = 742
          /\ pdf_st.ops[k - 1].y = 47

====
